---- MODULE Spec2Model ----
(***************************************************************************)
(* Model of src/Detect_demo.py: the detection pipeline                     *)
(*   detect = _upload_asset -> _request_zip -> Image.open -> _parse_zip    *)
(*            -> annotate (only when the archive held no preview)          *)
(* with _extract_detections and _to_pixels as the operators _parse_zip     *)
(* applies to every JSON entry.                                            *)
(*                                                                         *)
(* Numbers are fixed-point: an integer n stands for n/10, so 0.1 is 1,     *)
(* the unit interval [0,1] is 0..10 and 50 pixels is 500.  Image           *)
(* dimensions are plain integers, so position * width stays in tenths.     *)
(***************************************************************************)
EXTENDS Integers, Sequences, FiniteSets, TLC

VARIABLES
    pc,             \* position of the running call
    image_bytes,    \* detect: the caller's source image
    content_type,   \* detect: the caller's content type ("" when unspecified)
    asset_id,       \* detect: the identifier _upload_asset returned
    calls,          \* every HTTP exchange and stage entered so far, in order
    retries,        \* _request_zip: remaining poll budget
    zip_bytes,      \* the bytes _request_zip returned / _parse_zip received
    size,           \* <<width, height>> handed to _parse_zip
    idx,            \* _parse_zip: number of namelist() entries already visited
    detections,     \* _parse_zip: detections accumulated so far
    annotated,      \* _parse_zip: the embedded preview found so far
    result,         \* what the call returned
    error,          \* the exception that left the call ("none": no exception)
    box,            \* _to_pixels: the bounding-box record under conversion
    rect            \* _to_pixels: its outcome

vars == <<pc, image_bytes, content_type, asset_id, calls, retries, zip_bytes, size, idx,
          detections, annotated, result, error, box, rect>>

(***************************************************************************)
(* JSON scalars as Python sees them after json.loads.  Every value is a    *)
(* record [t, n, s]: t is the Python type, n the number a number holds, s  *)
(* the text a string holds.                                                *)
(***************************************************************************)
Absent == [t |-> "absent", n |-> 0, s |-> ""]   \* the key is not in the mapping
Null   == [t |-> "null",   n |-> 0, s |-> ""]   \* JSON null, Python None
Lst    == [t |-> "list",   n |-> 0, s |-> ""]   \* a non-empty list, e.g. [1]
Num(n) == [t |-> "num",    n |-> n, s |-> ""]
Str(s) == [t |-> "str",    n |-> 0, s |-> s]

\* Python truthiness: None, 0 and "" are falsy; a non-empty string or list is truthy.
Truthy(v) ==
    CASE v.t = "num" -> v.n # 0
      [] v.t = "str" -> v.s # ""
      [] v.t = "list" -> TRUE
      [] OTHER -> FALSE

\* Python `a or b`: the first operand when it is truthy, else the second.
PyOr(a, b) == IF Truthy(a) THEN a ELSE b

\* dict.get(key): None when the key is missing.
Get(d, k) == IF d[k].t = "absent" THEN Null ELSE d[k]

\* dict.get(key, default): the default only when the key is missing.
GetOr(d, k, dflt) == IF d[k].t = "absent" THEN dflt ELSE d[k]

\* The strings float() reads as a number, with the number read (in tenths).
NumericStrings == ("0.5" :> 5) @@ ("5" :> 50)

\* float(v): the number itself, the number a numeric string spells, ValueError
\* for any other string, TypeError for None or a list.
Float(v) ==
    CASE v.t = "num" -> [err |-> "none", n |-> v.n]
      [] v.t = "str" /\ v.s \in DOMAIN NumericStrings ->
            [err |-> "none", n |-> NumericStrings[v.s]]
      [] v.t = "str" -> [err |-> "ValueError", n |-> 0]
      [] OTHER -> [err |-> "TypeError", n |-> 0]

\* v - x for a float x: defined for a number only, TypeError otherwise.
Minus(v, x) ==
    IF v.t = "num" THEN [err |-> "none", n |-> v.n - x]
    ELSE [err |-> "TypeError", n |-> 0]

BoxKeys == {"x", "xmin", "y", "ymin", "width", "xmax", "height", "ymax"}

\* 0 <= n <= 1 in tenths.
InUnit(n) == 0 <= n /\ n <= 10

\* float(box.get(pos) or box.get(alt) or 0)
ReadPosition(b, pos, alt) == Float(PyOr(PyOr(Get(b, pos), Get(b, alt)), Num(0)))

\* float(box.get(ext) or (box.get(far, 0) - p))
ReadExtent(b, ext, far, p) ==
    IF Truthy(Get(b, ext)) THEN Float(Get(b, ext))
    ELSE Minus(GetOr(b, far, Num(0)), p)

\* Variant: the position alone decides.
ScaleAxis_PositionOnly(p, e) == InUnit(p)

\* The scaling test of one axis: both the position and the extent in [0,1].
ScaleAxis(p, e) == InUnit(p) /\ InUnit(e)

Raise(e) == [err |-> e, v |-> <<0, 0, 0, 0>>]

EmptyBox == [k \in BoxKeys |-> Absent]

\* What a record holds under bbox / box / bounding_box: nothing, null, a mapping
\* f of BoxKeys, or a non-empty list such as [10, 20, 30, 40].
NoBox      == [t |-> "absent", f |-> EmptyBox]
NullBox    == [t |-> "null",   f |-> EmptyBox]
ListBox    == [t |-> "list",   f |-> EmptyBox]
DictBox(f) == [t |-> "dict",   f |-> f]

\* _to_pixels(box, width, height): [err, v], v = [x, y, x + w, y + h].
\* box.get on a list raises AttributeError.
ToPixels(bi, width, height) ==
    LET b  == bi.f
        xr == ReadPosition(b, "x", "xmin")
        yr == ReadPosition(b, "y", "ymin")
        wr == ReadExtent(b, "width", "xmax", xr.n)
        hr == ReadExtent(b, "height", "ymax", yr.n)
        sx == ScaleAxis(xr.n, wr.n)
        sy == ScaleAxis(yr.n, hr.n)
        x  == IF sx THEN xr.n * width ELSE xr.n
        w  == IF sx THEN wr.n * width ELSE wr.n
        y  == IF sy THEN yr.n * height ELSE yr.n
        h  == IF sy THEN hr.n * height ELSE hr.n
    IN  CASE bi.t # "dict" -> Raise("AttributeError")
          [] xr.err # "none" -> Raise(xr.err)
          [] yr.err # "none" -> Raise(yr.err)
          [] wr.err # "none" -> Raise(wr.err)
          [] hr.err # "none" -> Raise(hr.err)
          [] OTHER -> [err |-> "none", v |-> <<x, y, x + w, y + h>>]

(***************************************************************************)
(* _extract_detections                                                     *)
(***************************************************************************)
ScalarKeys  == {"label", "class", "text", "confidence", "score"}
BoxInfoKeys == {"bbox", "box", "bounding_box"}

NoScalars == [k \in ScalarKeys |-> Absent]
NoBoxes   == [k \in BoxInfoKeys |-> NoBox]

\* A record of a document: a mapping (its scalar fields f, its box fields b)
\* or anything else (a number, a string, a nested list).
MapItem(f, b) == [t |-> "dict",  f |-> f, b |-> b]
OtherItem     == [t |-> "other", f |-> NoScalars, b |-> NoBoxes]

\* Truthiness of a box field: a mapping is truthy when it has a key.
TruthyBox(bi) ==
    CASE bi.t = "dict" -> \E k \in BoxKeys : bi.f[k].t # "absent"
      [] bi.t = "list" -> TRUE
      [] OTHER -> FALSE

\* item.get("bbox") or item.get("box") or item.get("bounding_box") or {}
BBoxInfo(item) ==
    CASE TruthyBox(item.b["bbox"]) -> item.b["bbox"]
      [] TruthyBox(item.b["box"]) -> item.b["box"]
      [] TruthyBox(item.b["bounding_box"]) -> item.b["bounding_box"]
      [] OTHER -> DictBox(EmptyBox)

\* str(v) of a truthy value: the text of a string, the digits of the number
\* 5, the text of the list [1].
PyStr(v) ==
    CASE v.t = "str" -> v.s
      [] v.t = "num" -> "5"
      [] OTHER -> "[1]"

\* str(item.get("label") or item.get("class") or item.get("text") or "object")
LabelOf(item) ==
    PyStr(PyOr(PyOr(PyOr(Get(item.f, "label"), Get(item.f, "class")),
                    Get(item.f, "text")), Str("object")))

\* float(item.get("confidence") or item.get("score") or 0)
ConfidenceOf(item) ==
    Float(PyOr(PyOr(Get(item.f, "confidence"), Get(item.f, "score")), Num(0)))

\* The body of the loop for one mapping record: [err, det].  The bbox is
\* converted first (line 142), then the label and the confidence.
ExtractItem(item, width, height) ==
    LET px == ToPixels(BBoxInfo(item), width, height)
        cf == ConfidenceOf(item)
        d  == [label |-> LabelOf(item), confidence |-> cf.n, bbox |-> px.v]
    IN  CASE px.err # "none" -> [err |-> px.err, det |-> d]
          [] cf.err # "none" -> [err |-> cf.err, det |-> d]
          [] OTHER -> [err |-> "none", det |-> d]

\* Variant: each detection is put in front of the earlier ones.
RECURSIVE ExtractLoop_Reversed(_, _, _, _)
ExtractLoop_Reversed(items, acc, width, height) ==
    IF items = <<>> THEN [err |-> "none", dets |-> acc]
    ELSE IF Head(items).t # "dict"
         THEN ExtractLoop_Reversed(Tail(items), acc, width, height)
         ELSE LET r == ExtractItem(Head(items), width, height)
              IN  IF r.err # "none" THEN [err |-> r.err, dets |-> <<>>]
                  ELSE ExtractLoop_Reversed(Tail(items), <<r.det>> \o acc, width, height)

\* for item in items: skip what is not a mapping, append one detection per
\* mapping; an exception leaves the loop.  [err, dets].
RECURSIVE ExtractLoop(_, _, _, _)
ExtractLoop(items, acc, width, height) ==
    IF items = <<>> THEN [err |-> "none", dets |-> acc]
    ELSE IF Head(items).t # "dict"
         THEN ExtractLoop(Tail(items), acc, width, height)
         ELSE LET r == ExtractItem(Head(items), width, height)
              IN  IF r.err # "none" THEN [err |-> r.err, dets |-> <<>>]
                  ELSE ExtractLoop(Tail(items), Append(acc, r.det), width, height)

\* The keys a mapping document is searched for a list, in this order.
CollKeys == <<"predictions", "detections", "objects", "results", "data">>

\* What a document holds under one of CollKeys.
NoColl       == [t |-> "absent", items |-> <<>>]
OtherColl    == [t |-> "other",  items |-> <<>>]    \* present, not a list
ListColl(xs) == [t |-> "list",   items |-> xs]

NoColls == [k \in {CollKeys[i] : i \in DOMAIN CollKeys} |-> NoColl]

\* What json.loads makes of an entry: "bad" (it raises), a mapping (its
\* CollKeys in coll, its own record fields in self), a list, or another value.
BadDoc           == [t |-> "bad",   items |-> <<>>, coll |-> NoColls, self |-> OtherItem]
OtherDoc         == [t |-> "other", items |-> <<>>, coll |-> NoColls, self |-> OtherItem]
ListDoc(xs)      == [t |-> "list",  items |-> xs,   coll |-> NoColls, self |-> OtherItem]
DictDoc(c, self) == [t |-> "dict",  items |-> <<>>, coll |-> c,       self |-> self]

\* The first key of CollKeys, from position i on, that holds a list; 0 if none.
RECURSIVE FirstListKey(_, _)
FirstListKey(doc, i) ==
    IF i > Len(CollKeys) THEN 0
    ELSE IF doc.coll[CollKeys[i]].t = "list" THEN i
    ELSE FirstListKey(doc, i + 1)

\* The items of a document: lines 126-135.
ItemsOf(doc) ==
    CASE doc.t = "dict" ->
            LET i == FirstListKey(doc, 1)
            IN  IF i # 0 THEN doc.coll[CollKeys[i]].items ELSE <<doc.self>>
      [] doc.t = "list" -> doc.items
      [] OTHER -> <<>>

\* _extract_detections(data, width, height): [err, dets].
ExtractDetections(doc, width, height) ==
    ExtractLoop(ItemsOf(doc), <<>>, width, height)

(***************************************************************************)
(* HTTP exchanges.  A response is [net, status, body]; net = "timeout"     *)
(* stands for requests raising instead of returning a response.  calls     *)
(* records every exchange and every later stage of detect, in order.       *)
(***************************************************************************)
\* Byte strings handed to _parse_zip: b"", bytes that are no zip archive, or
\* an archive with the names of its entries in namelist() order.
EmptyBytes   == [kind |-> "empty",   names |-> <<>>]
GarbageBytes == [kind |-> "garbage", names |-> <<>>]
ZipBytes(ns) == [kind |-> "zip",     names |-> ns]

Exchange(op, r) == [op |-> op, net |-> r.net, status |-> r.status, body |-> r.body]
Stage(op)       == [op |-> op, net |-> "none", status |-> 0, body |-> EmptyBytes]

\* response.raise_for_status(): HTTPError for a 4xx or 5xx status.
RaiseForStatus(status) == 400 <= status /\ status < 600

\* str(uuid.UUID(text)): the canonical form, "" standing for ValueError.
CanonicalUuid(text) ==
    CASE text = "3f2b-01" -> "3f2b-01"
      [] text = "3F2B-01" -> "3f2b-01"
      [] text = "{3f2b-01}" -> "3f2b-01"
      [] OTHER -> ""

(***************************************************************************)
(* Archives.  An archive is its namelist(): the names of its entries in    *)
(* listing order.  A name is its dot-separated parts, the last one being   *)
(* the extension with its dot: "B.PNG" is <<"B", ".PNG">> and "s.png.txt"  *)
(* is <<"s", ".png", ".txt">>.  A name stands for one file: the bytes      *)
(* zf.read(name) returns and what json.loads makes of those bytes.         *)
(***************************************************************************)
Entry(name, data, doc) == [name |-> name, data |-> data, doc |-> doc]

\* str.lower() of one part of a name.
LowerPart(p) ==
    CASE p = ".PNG" -> ".png"
      [] p = ".Jpg" -> ".jpg"
      [] p = ".JSON" -> ".json"
      [] p = "B" -> "b"
      [] p = "J" -> "j"
      [] p = "K" -> "k"
      [] OTHER -> p

\* name.lower()
Lower(name) == [i \in DOMAIN name |-> LowerPart(name[i])]

\* lower.endswith(suffixes)
EndsWith(name, suffixes) == name # <<>> /\ name[Len(name)] \in suffixes

RasterSuffixes == {".png", ".jpg", ".jpeg", ".webp"}

\* Variant: without the `not annotated` test, the last raster entry wins.
TakePreview_LastWins(seen, e) ==
    IF EndsWith(Lower(e.name), RasterSuffixes) THEN e.data ELSE seen

\* Line 162: the preview after visiting an entry.  `not annotated` is true
\* of the empty byte string, so an empty preview is taken for none.
TakePreview(seen, e) ==
    IF seen = "" /\ EndsWith(Lower(e.name), RasterSuffixes) THEN e.data ELSE seen

\* Lines 164-169: what one entry adds to the detections: [err, dets].
EntryDetections(e, width, height) ==
    IF ~EndsWith(Lower(e.name), {".json"}) THEN [err |-> "none", dets |-> <<>>]
    ELSE IF e.doc.t = "bad" THEN [err |-> "none", dets |-> <<>>]
    ELSE ExtractDetections(e.doc, width, height)

\* {x: 0.1, y: 0.1, width: 0.2, height: 0.2}
BoxFractions ==
    DictBox([EmptyBox EXCEPT !["x"] = Num(1), !["y"] = Num(1),
                             !["width"] = Num(2), !["height"] = Num(2)])

\* {xmin: 50, ymin: 60, xmax: 150, ymax: 260}
BoxCorners ==
    DictBox([EmptyBox EXCEPT !["xmin"] = Num(500), !["ymin"] = Num(600),
                             !["xmax"] = Num(1500), !["ymax"] = Num(2600)])

\* Records of a document.
ItemCat ==
    MapItem([NoScalars EXCEPT !["label"] = Str("cat"), !["confidence"] = Num(9)],
            [NoBoxes EXCEPT !["bbox"] = BoxFractions])
ItemDog ==
    MapItem([NoScalars EXCEPT !["class"] = Str("dog"), !["score"] = Str("0.5")],
            [NoBoxes EXCEPT !["box"] = BoxCorners])
ItemBare == MapItem(NoScalars, NoBoxes)
ItemBadConfidence ==
    MapItem([NoScalars EXCEPT !["label"] = Str("cat"), !["confidence"] = Str("high")],
            NoBoxes)
ItemListBox ==
    MapItem([NoScalars EXCEPT !["label"] = Str("dog")],
            [NoBoxes EXCEPT !["bbox"] = ListBox])

\* Documents.
DocMixedList     == ListDoc(<<ItemCat, OtherItem, ItemDog>>)
DocBadConfidence == ListDoc(<<ItemDog, ItemBadConfidence>>)
DocListBox       == ListDoc(<<ItemListBox>>)
DocPredictions ==
    DictDoc([NoColls EXCEPT !["predictions"] = ListColl(<<ItemDog, ItemCat, ItemBare>>)],
            ItemBare)
DocResults ==
    DictDoc([NoColls EXCEPT !["predictions"] = OtherColl,
                            !["results"] = ListColl(<<ItemDog>>),
                            !["data"] = ListColl(<<ItemCat>>)], ItemBare)
DocEmptyList == DictDoc([NoColls EXCEPT !["detections"] = ListColl(<<>>)], ItemCat)
DocSingle    == DictDoc(NoColls, ItemCat)
DocPair      == ListDoc(<<ItemBare, ItemCat>>)

\* The files archives are made of.
Files ==
    { Entry(<<"a", ".png">>, "", BadDoc),
      Entry(<<"B", ".PNG">>, "previewB", BadDoc),
      Entry(<<"c", ".jpeg">>, "previewC", BadDoc),
      Entry(<<"J", ".Jpg">>, "previewJ", BadDoc),
      Entry(<<"w", ".webp">>, "previewW", BadDoc),
      Entry(<<"s", ".png", ".txt">>, "text", BadDoc),
      Entry(<<"t", ".bmp">>, "bitmap", BadDoc),
      Entry(<<"d0", ".json">>, "{oops", BadDoc),
      Entry(<<"d1", ".json">>, "3", OtherDoc),
      Entry(<<"d2", ".json">>, "json", DocMixedList),
      Entry(<<"d3", ".json">>, "json", DocBadConfidence),
      Entry(<<"d4", ".json">>, "json", DocListBox),
      Entry(<<"d5", ".json">>, "json", DocPredictions),
      Entry(<<"d6", ".json">>, "json", DocResults),
      Entry(<<"d7", ".json">>, "json", DocEmptyList),
      Entry(<<"d8", ".json">>, "json", DocSingle),
      Entry(<<"K", ".JSON">>, "json", DocPair) }

\* The file a name stands for.
File(name) == CHOOSE e \in Files : e.name = name

FileNames == {e.name : e \in Files}

\* Lines 153-159: an empty byte string returns at once; ZipFile() raises
\* BadZipFile for bytes that are no archive.
ParseBegin ==
    /\ pc = "parse"
    /\ calls' = Append(calls, Stage("parse"))
    /\ detections' = <<>>
    /\ annotated' = ""
    /\ idx' = 0
    /\ \/ /\ zip_bytes.kind = "empty"
          /\ pc' = "parsed"
          /\ error' = error
       \/ /\ zip_bytes.kind = "garbage"
          /\ pc' = "raised"
          /\ error' = "BadZipFile"
       \/ /\ zip_bytes.kind = "zip"
          /\ pc' = "loop"
          /\ error' = error
    /\ UNCHANGED <<image_bytes, content_type, asset_id, retries, zip_bytes, size, result,
                   box, rect>>

\* Lines 160-169: one iteration of `for name in zf.namelist()`.
ParseEntry ==
    /\ pc = "loop"
    /\ idx < Len(zip_bytes.names)
    /\ LET e == File(zip_bytes.names[idx + 1])
           r == EntryDetections(e, size[1], size[2])
       IN  /\ annotated' = TakePreview(annotated, e)
           /\ idx' = idx + 1
           /\ IF r.err # "none"
              THEN /\ pc' = "raised"
                   /\ error' = r.err
                   /\ detections' = detections
              ELSE /\ pc' = "loop"
                   /\ error' = error
                   /\ detections' = detections \o r.dets
    /\ UNCHANGED <<image_bytes, content_type, asset_id, calls, retries, zip_bytes, size,
                   result, box, rect>>

\* Line 171: return detections, annotated.
ParseReturn ==
    /\ pc = "loop"
    /\ idx = Len(zip_bytes.names)
    /\ pc' = "parsed"
    /\ UNCHANGED <<image_bytes, content_type, asset_id, calls, retries, zip_bytes, size,
                   idx, detections, annotated, result, error, box, rect>>

(***************************************************************************)
(* _upload_asset, _request_zip and detect                                  *)
(***************************************************************************)
MAX_RETRIES == 5

NoResponse == [net |-> "timeout", status |-> 0, body |-> EmptyBytes, meta |-> "", id |-> ""]
Response(status, body) ==
    [net |-> "ok", status |-> status, body |-> body, meta |-> "", id |-> ""]
\* A negotiation response: meta says what its JSON body holds, id is the
\* text of its assetId.
MetaResponse(status, meta, id) ==
    [net |-> "ok", status |-> status, body |-> EmptyBytes, meta |-> meta, id |-> id]

\* Lines 61-66: what the negotiation response leads to: [err, id].
NegotiateOutcome(r) ==
    CASE r.net # "ok" -> [err |-> "ConnectionError", id |-> ""]
      [] RaiseForStatus(r.status) -> [err |-> "HTTPError", id |-> ""]
      [] r.meta = "notjson" -> [err |-> "JSONDecodeError", id |-> ""]
      [] r.meta \in {"nourl", "noid"} -> [err |-> "KeyError", id |-> ""]
      [] CanonicalUuid(r.id) = "" -> [err |-> "ValueError", id |-> ""]
      [] OTHER -> [err |-> "none", id |-> CanonicalUuid(r.id)]

\* Variant: without raise_for_status after the PUT.
PutOutcome_Unchecked(r) ==
    IF r.net # "ok" THEN "ConnectionError" ELSE "none"

\* Lines 72-73: what the upload response leads to.
PutOutcome(r) ==
    CASE r.net # "ok" -> "ConnectionError"
      [] RaiseForStatus(r.status) -> "HTTPError"
      [] OTHER -> "none"

\* Variant: every status but 200 is taken for "accepted".
SubmitOutcome_PollUnless200(r) ==
    CASE r.net # "ok" -> [next |-> "raise", err |-> "ConnectionError", bytes |-> EmptyBytes]
      [] r.status = 200 -> [next |-> "return", err |-> "none", bytes |-> r.body]
      [] OTHER -> [next |-> "poll", err |-> "none", bytes |-> EmptyBytes]

\* Lines 103-106 and 122-123: what the submit response leads to:
\* [next, err, bytes], next one of "return", "poll", "raise".
SubmitOutcome(r) ==
    CASE r.net # "ok" -> [next |-> "raise", err |-> "ConnectionError", bytes |-> EmptyBytes]
      [] r.status = 200 -> [next |-> "return", err |-> "none", bytes |-> r.body]
      [] r.status = 202 -> [next |-> "poll", err |-> "none", bytes |-> EmptyBytes]
      [] RaiseForStatus(r.status) -> [next |-> "raise", err |-> "HTTPError", bytes |-> EmptyBytes]
      [] OTHER -> [next |-> "return", err |-> "none", bytes |-> r.body]

\* Variant: the retry is counted before the status is looked at.
PollOutcome_CountFirst(r, n) ==
    CASE r.net # "ok" ->
            [next |-> "raise", err |-> "ConnectionError", bytes |-> EmptyBytes, retries |-> n]
      [] n - 1 = 0 ->
            [next |-> "return", err |-> "none", bytes |-> EmptyBytes, retries |-> n - 1]
      [] r.status = 200 ->
            [next |-> "return", err |-> "none", bytes |-> r.body, retries |-> n - 1]
      [] r.status # 202 ->
            [next |-> "return", err |-> "none", bytes |-> EmptyBytes, retries |-> n - 1]
      [] OTHER ->
            [next |-> "poll", err |-> "none", bytes |-> EmptyBytes, retries |-> n - 1]

\* Variant: a status other than 200 and 202 raises, as the submit does.
PollOutcome_RaiseOnOther(r, n) ==
    CASE r.net # "ok" ->
            [next |-> "raise", err |-> "ConnectionError", bytes |-> EmptyBytes, retries |-> n]
      [] r.status = 200 ->
            [next |-> "return", err |-> "none", bytes |-> r.body, retries |-> n]
      [] r.status # 202 ->
            [next |-> "raise", err |-> "HTTPError", bytes |-> EmptyBytes, retries |-> n]
      [] n - 1 > 0 ->
            [next |-> "poll", err |-> "none", bytes |-> EmptyBytes, retries |-> n - 1]
      [] OTHER ->
            [next |-> "return", err |-> "none", bytes |-> EmptyBytes, retries |-> n - 1]

\* Lines 115-121: what one poll response leads to with n retries left:
\* [next, err, bytes, retries], next one of "return", "poll", "raise".
PollOutcome(r, n) ==
    CASE r.net # "ok" ->
            [next |-> "raise", err |-> "ConnectionError", bytes |-> EmptyBytes, retries |-> n]
      [] r.status = 200 ->
            [next |-> "return", err |-> "none", bytes |-> r.body, retries |-> n]
      [] r.status # 202 ->
            [next |-> "return", err |-> "none", bytes |-> EmptyBytes, retries |-> n]
      [] n - 1 > 0 ->
            [next |-> "poll", err |-> "none", bytes |-> EmptyBytes, retries |-> n - 1]
      [] OTHER ->
            [next |-> "return", err |-> "none", bytes |-> EmptyBytes, retries |-> n - 1]

\* Where a call of _request_zip goes next.
AfterRequest(next) ==
    CASE next = "return" -> "decode" [] next = "poll" -> "poll" [] OTHER -> "raised"

\* The source images: two that decode, one that Image.open rejects.
Decodable(img) == img \in {"photo", "thumb"}
ImageSize(img) == IF img = "photo" THEN <<800, 600>> ELSE <<4, 3>>

\* Image bytes: the preview of the archive as it is, or what annotate draws
\* from a source image and detections (a PNG, never empty).
ServiceImage(data)  == [by |-> "service",  enc |-> data,  src |-> "",  dets |-> <<>>]
Annotate(img, dets) == [by |-> "annotate", enc |-> "PNG", src |-> img, dets |-> dets]

\* Variant: the annotator runs whatever the archive held.
NeedsFallback_Always(preview) == TRUE

\* Line 225: `not annotated_bytes`.
NeedsFallback(preview) == preview = ""

\* Lines 225-227: the image detect returns.
FinalImage(preview, img, dets) ==
    IF NeedsFallback(preview) THEN Annotate(img, dets) ELSE ServiceImage(preview)

SubmitStatuses == {200, 202, 204, 304, 404, 500}
PollStatuses   == {200, 202, 204, 500}
UploadStatuses == {200, 403, 500}

\* The bodies the service answers with.
ResultBodies ==
    { EmptyBytes, GarbageBytes,
      ZipBytes(<<>>),
      ZipBytes(<<<<"B", ".PNG">>, <<"d5", ".json">>>>),
      ZipBytes(<<<<"d2", ".json">>, <<"a", ".png">>>>),
      ZipBytes(<<<<"d3", ".json">>>>) }
PendingBodies == {GarbageBytes, ZipBytes(<<<<"d2", ".json">>, <<"a", ".png">>>>)}

NegotiateResponses ==
    {NoResponse}
    \cup {MetaResponse(st, "json", id) :
            st \in UploadStatuses, id \in {"3f2b-01", "3F2B-01", "not-a-uuid"}}
    \cup {MetaResponse(200, m, "3f2b-01") : m \in {"notjson", "nourl", "noid"}}
PutResponses == {NoResponse} \cup {Response(st, EmptyBytes) : st \in UploadStatuses}
SubmitResponses ==
    {NoResponse}
    \cup {Response(200, b) : b \in ResultBodies}
    \cup {Response(st, b) : st \in SubmitStatuses \ {200}, b \in PendingBodies}
PollResponses ==
    {NoResponse}
    \cup {Response(200, b) : b \in ResultBodies}
    \cup {Response(st, b) : st \in PollStatuses \ {200}, b \in PendingBodies}

\* detect line 219 and _upload_asset lines 55-66: the negotiation POST.
Negotiate ==
    /\ pc = "detect"
    /\ content_type' = IF content_type = "" THEN "image/png" ELSE content_type
    /\ \E r \in NegotiateResponses :
          LET o == NegotiateOutcome(r)
          IN  /\ calls' = Append(calls, Exchange("POST assets", r))
              /\ error' = o.err
              /\ asset_id' = o.id
              /\ pc' = IF o.err = "none" THEN "put" ELSE "raised"
    /\ UNCHANGED <<image_bytes, retries, zip_bytes, size, idx, detections,
                   annotated, result, box, rect>>

\* _upload_asset lines 68-74: the upload PUT.
Put ==
    /\ pc = "put"
    /\ \E r \in PutResponses :
          /\ calls' = Append(calls, Exchange("PUT upload", r))
          /\ error' = PutOutcome(r)
          /\ pc' = IF PutOutcome(r) = "none" THEN "submit" ELSE "raised"
    /\ UNCHANGED <<image_bytes, content_type, asset_id, retries, zip_bytes, size,
                   idx, detections, annotated, result, box, rect>>

\* _request_zip lines 77-112 and 122-123: the submit POST.
Submit ==
    /\ pc = "submit"
    /\ \E r \in SubmitResponses :
          LET o == SubmitOutcome(r)
          IN  /\ calls' = Append(calls, Exchange("POST infer", r))
              /\ error' = o.err
              /\ zip_bytes' = o.bytes
              /\ retries' = IF o.next = "poll" THEN MAX_RETRIES ELSE retries
              /\ pc' = AfterRequest(o.next)
    /\ UNCHANGED <<image_bytes, content_type, asset_id, size, idx, detections,
                   annotated, result, box, rect>>

\* _request_zip lines 113-121: one pass of the polling loop, with the
\* return of b"" that follows the loop when the pass ends it.
Poll ==
    /\ pc = "poll"
    /\ retries > 0
    /\ \E r \in PollResponses :
          LET o == PollOutcome(r, retries)
          IN  /\ calls' = Append(calls, Exchange("GET status", r))
              /\ error' = o.err
              /\ zip_bytes' = o.bytes
              /\ retries' = o.retries
              /\ pc' = AfterRequest(o.next)
    /\ UNCHANGED <<image_bytes, content_type, asset_id, size, idx, detections,
                   annotated, result, box, rect>>

\* detect lines 222-223: the size of the source image.
Decode ==
    /\ pc = "decode"
    /\ calls' = Append(calls, Stage("decode"))
    /\ IF Decodable(image_bytes)
       THEN /\ size' = ImageSize(image_bytes)
            /\ pc' = "parse"
            /\ error' = error
       ELSE /\ size' = size
            /\ pc' = "raised"
            /\ error' = "UnidentifiedImageError"
    /\ UNCHANGED <<image_bytes, content_type, asset_id, retries, zip_bytes, idx,
                   detections, annotated, result, box, rect>>

\* detect lines 225-227: annotate when there is no preview, and return.
Finish ==
    /\ pc = "parsed"
    /\ calls' = IF NeedsFallback(annotated)
                THEN Append(calls, Stage("annotate")) ELSE calls
    /\ result' = [detections |-> detections,
                  image |-> FinalImage(annotated, image_bytes, detections)]
    /\ pc' = "done"
    /\ UNCHANGED <<image_bytes, content_type, asset_id, retries, zip_bytes, size,
                   idx, detections, annotated, error, box, rect>>

\* Lines 172-184 applied to one record.
ConvertBox ==
    /\ pc = "box"
    /\ rect' = ToPixels(box, size[1], size[2])
    /\ pc' = "boxed"
    /\ UNCHANGED <<image_bytes, content_type, asset_id, calls, retries, zip_bytes, size,
                   idx, detections, annotated, result, error, box>>

(***************************************************************************)
(* Inputs                                                                  *)
(***************************************************************************)
\* Image sizes <<width, height>>.
Dims == {<<800, 600>>, <<4, 3>>}

\* The values a key of a bounding-box record is given.
AxisVals == {Absent, Null, Num(0), Num(1), Num(10), Num(15), Num(-5),
             Str("0.5"), Str("high")}

\* One axis of a record: the values under its four keys.
AxisCfgs == [pos : AxisVals, alt : AxisVals, ext : AxisVals, far : AxisVals]

\* A few axes for the other axis of the record.
FewAxisCfgs ==
    { [pos |-> Absent, alt |-> Absent, ext |-> Absent, far |-> Absent],
      [pos |-> Num(1), alt |-> Absent, ext |-> Num(10), far |-> Absent],
      [pos |-> Absent, alt |-> Num(15), ext |-> Absent, far |-> Num(500)] }

BoxOf(ax, ay) ==
    DictBox([x |-> ax.pos, xmin |-> ax.alt, width |-> ax.ext, xmax |-> ax.far,
             y |-> ay.pos, ymin |-> ay.alt, height |-> ay.ext, ymax |-> ay.far])

NoRect == [err |-> "none", v |-> <<0, 0, 0, 0>>]
NoResult == [detections |-> <<>>, image |-> ServiceImage("")]

MaxEntries == 3

RECURSIVE SeqsUpTo(_, _)
SeqsUpTo(S, n) ==
    IF n = 0 THEN {<<>>}
    ELSE LET shorter == SeqsUpTo(S, n - 1)
         IN  shorter \cup {Append(q, e) : q \in shorter, e \in S}

Archives == SeqsUpTo(FileNames, MaxEntries)

(***************************************************************************)
(* Specifications of the two pure components                               *)
(***************************************************************************)
Idle ==
    /\ asset_id = ""
    /\ calls = <<>>
    /\ retries = 0
    /\ idx = 0
    /\ detections = <<>>
    /\ annotated = ""
    /\ result = NoResult
    /\ error = "none"
    /\ rect = NoRect

\* _to_pixels on the records made of two axes, on the two records of the
\* scenarios and on a list.
InitPixels ==
    /\ Idle
    /\ image_bytes = "photo"
    /\ content_type = ""
    /\ pc = "box"
    /\ \/ \E ax \in AxisCfgs, ay \in FewAxisCfgs : box = BoxOf(ax, ay)
       \/ \E ax \in FewAxisCfgs, ay \in AxisCfgs : box = BoxOf(ax, ay)
       \/ box \in {BoxFractions, BoxCorners, ListBox}
    /\ size \in Dims
    /\ zip_bytes = EmptyBytes

NextPixels == ConvertBox

SpecPixels == InitPixels /\ [][NextPixels]_vars

\* _parse_zip on b"", on bytes that are no archive and on every archive.
InitUnpack ==
    /\ Idle
    /\ image_bytes = "photo"
    /\ content_type = ""
    /\ pc = "parse"
    /\ box = NoBox
    /\ size = <<800, 600>>
    /\ zip_bytes \in {EmptyBytes, GarbageBytes} \cup {ZipBytes(es) : es \in Archives}

NextUnpack == ParseBegin \/ ParseEntry \/ ParseReturn

SpecUnpack == InitUnpack /\ [][NextUnpack]_vars

(***************************************************************************)
(* detect, called with every source image and content type                 *)
(***************************************************************************)
Init ==
    /\ Idle
    /\ pc = "detect"
    /\ image_bytes \in {"photo", "thumb", "junk"}
    /\ content_type \in {"", "image/jpeg"}
    /\ zip_bytes = EmptyBytes
    /\ size = <<0, 0>>
    /\ box = NoBox

Next ==
    \/ Negotiate
    \/ Put
    \/ Submit
    \/ Poll
    \/ Decode
    \/ ParseBegin
    \/ ParseEntry
    \/ ParseReturn
    \/ Finish

Spec == Init /\ [][Next]_vars

(***************************************************************************)
(* Properties of _request_zip and detect, checked under Spec               *)
(***************************************************************************)
PollCalls == SelectSeq(calls, LAMBDA c : c.op = "GET status")
SubmitCalls == SelectSeq(calls, LAMBDA c : c.op = "POST infer")
StageEntered(op) == \E i \in DOMAIN calls : calls[i].op = op

\* _request_zip has returned to detect.
RequestReturned == pc = "decode" \/ StageEntered("decode")

\* Poll j completed the request after j - 1 pending polls.
CompletedAt(P, j) ==
    /\ P[j].net = "ok" /\ P[j].status = 200
    /\ \A i \in 1..(j - 1) : P[i].net = "ok" /\ P[i].status = 202

\* C1: after a submit status of 202, when the polls answer 202 k times and
\* then 200 (0 <= k < 5), the call returns the body of poll k+1, has
\* issued exactly k+1 polls and has consumed exactly k of the 5 retries.
C1_PendingThenCompleted ==
    \A j \in DOMAIN PollCalls :
        CompletedAt(PollCalls, j)
        => /\ SubmitCalls[1].status = 202
           /\ j <= MAX_RETRIES
           /\ Len(PollCalls) = j
           /\ RequestReturned
           /\ zip_bytes = PollCalls[j].body
           /\ retries = MAX_RETRIES - (j - 1)

\* Polls 202, 202, 200: the third body is returned (not the second poll's
\* different body) and 3 of the 5 retries are left.
C1_Witness ==
    /\ pc = "decode"
    /\ Len(PollCalls) = 3
    /\ CompletedAt(PollCalls, 3)
    /\ PollCalls[2].body # PollCalls[3].body
    /\ zip_bytes = PollCalls[3].body
    /\ zip_bytes.kind = "zip"
    /\ retries = 3

\* The last poll ended the polling without a 200.
EndedWithout200(P) ==
    /\ P # <<>>
    /\ P[Len(P)].net = "ok"
    /\ \/ P[Len(P)].status \notin {200, 202}
       \/ P[Len(P)].status = 202 /\ Len(P) = MAX_RETRIES

\* C2: when the polling ends without a 200 (5 polls answered 202, or a
\* poll answered another status than 200 and 202), the call returns empty
\* bytes without raising; no poll follows the one that ended the loop and
\* there are never more than 5 polls.
C2_SoftFailure ==
    /\ Len(PollCalls) <= MAX_RETRIES
    /\ \A i \in 1..(Len(PollCalls) - 1) :
          PollCalls[i].net = "ok" /\ PollCalls[i].status = 202
    /\ EndedWithout200(PollCalls)
       => /\ RequestReturned
          /\ zip_bytes = EmptyBytes
          /\ error \notin {"HTTPError", "ConnectionError"}

\* Five polls answered 202: the budget is spent and b"" is returned.
C2_Witness ==
    /\ pc = "decode"
    /\ Len(PollCalls) = MAX_RETRIES
    /\ \A i \in DOMAIN PollCalls : PollCalls[i].status = 202
    /\ zip_bytes = EmptyBytes
    /\ retries = 0
    /\ error = "none"

\* C3: a submit status that is neither 200 nor 202 and is an error status
\* (4xx, 5xx) raises at once: no poll, no later stage, no result bytes.
C3_SubmitFailureRaises ==
    \A i \in DOMAIN calls :
        (/\ calls[i].op = "POST infer"
         /\ calls[i].net = "ok"
         /\ calls[i].status \notin {200, 202}
         /\ calls[i].status >= 400)
        => /\ pc = "raised"
           /\ error = "HTTPError"
           /\ i = Len(calls)
           /\ PollCalls = <<>>
           /\ zip_bytes = EmptyBytes
           /\ result = NoResult

\* The submit answered 500.
C3_Witness ==
    /\ pc = "raised"
    /\ SubmitCalls # <<>>
    /\ SubmitCalls[1].status = 500
    /\ error = "HTTPError"

\* C4: detect invokes the annotator exactly when _parse_zip returned no
\* preview, on the source image and the unpacked detections; a preview is
\* returned as it is; empty bytes from _request_zip give zero detections
\* and the annotated source image.
C4_FallbackExactlyWithoutPreview ==
    /\ pc # "done" => ~StageEntered("annotate")
    /\ pc = "done" =>
          /\ result.detections = detections
          /\ StageEntered("annotate") <=> annotated = ""
          /\ annotated = "" =>
                result.image = [by |-> "annotate", enc |-> "PNG",
                                src |-> image_bytes, dets |-> detections]
          /\ annotated # "" =>
                result.image = [by |-> "service", enc |-> annotated,
                                src |-> "", dets |-> <<>>]
          /\ zip_bytes = EmptyBytes =>
                /\ result.detections = <<>>
                /\ result.image = [by |-> "annotate", enc |-> "PNG",
                                   src |-> image_bytes, dets |-> <<>>]

\* An archive without preview: the annotator drew its detections on the source.
C4_Witness ==
    /\ pc = "done"
    /\ annotated = ""
    /\ detections # <<>>
    /\ StageEntered("annotate")
    /\ result.image.src = image_bytes
    /\ result.image.dets = detections

\* The place of an exchange or stage in detect's order.
Rank(op) ==
    CASE op = "POST assets" -> 1 [] op = "PUT upload" -> 2
      [] op = "POST infer" -> 3 [] op = "GET status" -> 4
      [] op = "decode" -> 5 [] op = "parse" -> 6 [] OTHER -> 7

\* An exchange of _upload_asset or _request_zip that raises.
RaisingExchange(c) ==
    \/ c.op \in {"POST assets", "PUT upload", "POST infer", "GET status"} /\ c.net # "ok"
    \/ c.op \in {"POST assets", "PUT upload", "POST infer"} /\ c.status >= 400

\* C5: the stages run in the order negotiation POST, upload PUT, submit,
\* polls, decode, unpack, annotate, each at most once except the polls; a
\* failure of Upload or Request leaves detect at once with that error: no
\* PUT after a failed negotiation, no submit unless both upload steps
\* succeeded, nothing after a failed call.
C5_StagesInOrderFailuresPropagate ==
    /\ \A i, j \in DOMAIN calls :
          i < j => \/ Rank(calls[i].op) < Rank(calls[j].op)
                   \/ calls[i].op = "GET status" /\ calls[j].op = "GET status"
    /\ calls # <<>> => calls[1].op = "POST assets"
    /\ \A i \in DOMAIN calls :
          /\ calls[i].op = "PUT upload" =>
                i = 2 /\ ~RaisingExchange(calls[1]) /\ asset_id # ""
          /\ calls[i].op = "POST infer" =>
                i = 3 /\ ~RaisingExchange(calls[1]) /\ ~RaisingExchange(calls[2])
                      /\ calls[2].op = "PUT upload" /\ asset_id # ""
          /\ RaisingExchange(calls[i]) =>
                /\ i = Len(calls)
                /\ pc = "raised"
                /\ error = IF calls[i].net # "ok" THEN "ConnectionError" ELSE "HTTPError"
                /\ result = NoResult
    /\ (calls # <<>> /\ asset_id = "") => (Len(calls) = 1 /\ pc = "raised")

\* The upload PUT answered 500 after a successful negotiation.
C5_Witness ==
    /\ pc = "raised"
    /\ Len(calls) = 2
    /\ calls[2].op = "PUT upload"
    /\ calls[2].status = 500
    /\ error = "HTTPError"

(***************************************************************************)
(* Properties of _parse_zip, checked under SpecUnpack                      *)
(***************************************************************************)
\* C6: _parse_zip never raises, whatever its input bytes: an unparseable
\* JSON entry is skipped and a malformed record gets defaults.
C6_UnpackNeverRaises == pc # "raised" /\ error = "none"

\* The raster names and the JSON names among FileNames, by the wording of
\* the claims.
RasterNames == {<<"a", ".png">>, <<"B", ".PNG">>, <<"c", ".jpeg">>,
                <<"J", ".Jpg">>, <<"w", ".webp">>}
JsonNames == {n \in FileNames : n[Len(n)] \in {".json", ".JSON"}}

Least(S) == CHOOSE i \in S : \A j \in S : i <= j

ClaimRecords(doc) ==
    LET K  == {i \in DOMAIN CollKeys : doc.coll[CollKeys[i]].t = "list"}
        xs == CASE doc.t = "list" -> doc.items
                [] doc.t = "dict" /\ K # {} -> doc.coll[CollKeys[Least(K)]].items
                [] doc.t = "dict" -> <<doc.self>>
                [] OTHER -> <<>>
    IN  SelectSeq(xs, LAMBDA it : it.t = "dict")

\* One detection per record, in record order.
ClaimDetections(doc) ==
    LET rs == ClaimRecords(doc)
    IN  [i \in DOMAIN rs |-> ExtractItem(rs[i], size[1], size[2]).det]

\* The detections of the first n entries, document after document.
RECURSIVE ClaimConcat(_, _)
ClaimConcat(ns, n) ==
    IF n = 0 THEN <<>>
    ELSE ClaimConcat(ns, n - 1)
         \o (IF ns[n] \in JsonNames THEN ClaimDetections(File(ns[n]).doc) ELSE <<>>)

\* C8: the detections returned are the concatenation, in listing order of
\* the JSON documents, of each document's mapping records in record order;
\* one document with N records under predictions yields N detections.
C8_DocumentThenRecordOrder ==
    pc \in {"loop", "parsed"} => detections = ClaimConcat(zip_bytes.names, idx)

Labels(ds) == [i \in DOMAIN ds |-> ds[i].label]

\* A list document with a non-mapping element, an unparseable document and
\* a document with three records under predictions.
C8_Witness ==
    /\ pc = "parsed"
    /\ zip_bytes.names = <<<<"d2", ".json">>, <<"d0", ".json">>, <<"d5", ".json">>>>
    /\ Labels(detections) = <<"cat", "dog", "dog", "cat", "object">>

(***************************************************************************)
(* Properties of _to_pixels, checked under SpecPixels                      *)
(***************************************************************************)
\* Position p and extent e scaled by dimension d, or not, as claimed.
AxisAsClaimed(p, e, d, lo, hi) ==
    /\ (0 <= p /\ p <= 10 /\ 0 <= e /\ e <= 10) => (lo = p * d /\ hi = p * d + e * d)
    /\ (p > 10 \/ e > 10) => (lo = p /\ hi = p + e)

\* C9: on each axis, a position and an extent both in [0,1] are multiplied
\* by the image dimension of that axis; when either exceeds 1 neither is
\* scaled; the result is [x, y, x+w, y+h], unclamped.  800 by 600 with
\* x = y = 0.1, width = height = 0.2 gives [80, 60, 240, 180]; corners
\* 50, 60, 150, 260 give [50, 60, 150, 260] on any image.
C9_ScalingPerAxis ==
    (pc = "boxed" /\ rect.err = "none") =>
        LET px == ReadPosition(box.f, "x", "xmin").n
            py == ReadPosition(box.f, "y", "ymin").n
            ex == ReadExtent(box.f, "width", "xmax", px).n
            ey == ReadExtent(box.f, "height", "ymax", py).n
        IN  /\ AxisAsClaimed(px, ex, size[1], rect.v[1], rect.v[3])
            /\ AxisAsClaimed(py, ey, size[2], rect.v[2], rect.v[4])
            /\ (box = BoxFractions /\ size = <<800, 600>>)
                  => rect.v = <<800, 600, 2400, 1800>>
            /\ box = BoxCorners => rect.v = <<500, 600, 1500, 2600>>

\* A fraction on x, pixels on y: x is scaled by the width, y is not scaled.
C9_Witness ==
    /\ pc = "boxed"
    /\ rect.err = "none"
    /\ size = <<800, 600>>
    /\ box.f["x"] = Num(1) /\ box.f["width"] = Num(10)
    /\ box.f["ymin"] = Num(15) /\ box.f["ymax"] = Num(500)
    /\ rect.v = <<800, 15, 8800, 500>>

Present(v) == v.t # "absent"

\* Selection by presence, as claimed.
ClaimPosition(b, pos, alt) ==
    IF Present(b[pos]) THEN b[pos].n ELSE IF Present(b[alt]) THEN b[alt].n ELSE 0
ClaimExtent(b, ext, far, p) ==
    IF Present(b[ext]) THEN b[ext].n ELSE IF Present(b[far]) THEN b[far].n - p ELSE 0

\* [lo, hi] of one axis from the position and extent claimed.
ClaimAxis(p, e, d) ==
    IF 0 <= p /\ p <= 10 /\ 0 <= e /\ e <= 10
    THEN <<p * d, p * d + e * d>> ELSE <<p, p + e>>

\* C10: on a record whose fields are numbers, the position is x when x is
\* present (0 included), else xmin, else 0; the extent is width when width
\* is present (0 included), else xmax - x when xmax is present, else 0;
\* likewise for y.
C10_SelectionByPresence ==
    (/\ pc = "boxed"
     /\ box.t = "dict"
     /\ \A k \in BoxKeys : box.f[k].t \in {"absent", "num"})
    => LET px == ClaimPosition(box.f, "x", "xmin")
           py == ClaimPosition(box.f, "y", "ymin")
           ax == ClaimAxis(px, ClaimExtent(box.f, "width", "xmax", px), size[1])
           ay == ClaimAxis(py, ClaimExtent(box.f, "height", "ymax", py), size[2])
       IN  /\ rect.err = "none"
           /\ rect.v = <<ax[1], ay[1], ax[2], ay[2]>>

====
